---- MODULE Spec2Model ----
(***************************************************************************)
(* A model of the two programs of the repository:                          *)
(*   - Data/FetchData.py, the serial log collector (SpecCollector);        *)
(*   - app.py, the AnomalyChecker control and its analyze_inputs handler   *)
(*     (Spec, SpecFinite, SpecPair).                                       *)
(* Text is a sequence of one-character strings, so that startswith, strip, *)
(* replace, float() and the format specifications are computed, not        *)
(* assumed.  A byte that is not valid UTF-8 is the symbol "xFF".           *)
(***************************************************************************)
EXTENDS Integers, Sequences, FiniteSets, TLC

VARIABLES
  \* collector
  file,          \* the content of Data/logs.csv
  data,          \* the line last returned by Serial.readline()
  timestamp,     \* the timestamp last generated (line 9)
  lines_read,    \* how many lines have been read
  cpc,           \* "running", or "crashed" after an uncaught exception
  \* AnomalyChecker
  model, scaler, status, status_color,
  txt_temp, txt_hum, txt_press, txt_soil,
  lbl_result, lbl_score, progress_bar, lbl_loss, card_visible,
  \* the last analyze_inputs call: its locals and what it invoked
  reading,            \* input_vector (line 109), unbound if not reached
  mae_loss,
  score_percent,
  transform_called,   \* line 111 was reached
  predict_called,     \* line 120 was reached
  outcome,            \* "none", "not_loaded", "invalid", "normal", "anomaly"
  prev_outcome,       \* the outcome of the call before
  \* one earlier successful call, kept for comparison
  snap

\* ------------------------------------------------------------------------
\* Text helpers (Python str / bytes methods)
\* ------------------------------------------------------------------------

\* str.strip() with no argument removes these from both ends
Whitespace == {" ", "\t", "\n", "\r"}

StartsWith(s, p) ==
  /\ Len(s) >= Len(p)
  /\ SubSeq(s, 1, Len(p)) = p

RECURSIVE LStrip(_)
LStrip(s) ==
  IF s # <<>> /\ Head(s) \in Whitespace THEN LStrip(Tail(s)) ELSE s

RECURSIVE RStrip(_)
RStrip(s) ==
  IF s # <<>> /\ s[Len(s)] \in Whitespace
  THEN RStrip(SubSeq(s, 1, Len(s) - 1))
  ELSE s

Strip(s) == RStrip(LStrip(s))

\* str.replace(old, ""): one left-to-right pass over non-overlapping
\* occurrences; the result is not scanned again
RECURSIVE RemoveAll(_, _)
RemoveAll(s, old) ==
  IF s = <<>> THEN <<>>
  ELSE IF StartsWith(s, old)
       THEN RemoveAll(SubSeq(s, Len(old) + 1, Len(s)), old)
       ELSE <<Head(s)>> \o RemoveAll(Tail(s), old)

RECURSIVE Count(_, _)
Count(s, c) ==
  IF s = <<>> THEN 0
  ELSE (IF Head(s) = c THEN 1 ELSE 0) + Count(Tail(s), c)

DigitChars == <<"0", "1", "2", "3", "4", "5", "6", "7", "8", "9">>

DigitChar(d) == DigitChars[d + 1]

\* the decimal digits of n >= 0, zero-padded to at least `width` digits
RECURSIVE Digits(_, _)
Digits(n, width) ==
  IF n < 10 /\ width <= 1 THEN <<DigitChar(n)>>
  ELSE Digits(n \div 10, width - 1) \o <<DigitChar(n % 10)>>

\* ------------------------------------------------------------------------
\* Numbers: Python floats as exact rationals, NaN and the infinities
\* ------------------------------------------------------------------------

RECURSIVE GCD(_, _)
GCD(a, b) == IF b = 0 THEN a ELSE GCD(b, a % b)

AbsInt(n) == IF n < 0 THEN -n ELSE n

\* the finite number n/d, d > 0, in lowest terms
Rat(n, d) ==
  LET g == GCD(AbsInt(n), d)
  IN  [k |-> "fin", n |-> n \div g, d |-> d \div g]

NaN == [k |-> "nan", n |-> 0, d |-> 1]

Inf(sign) == [k |-> "inf", n |-> sign, d |-> 1]

\* a local variable that has not been assigned
Unbound == [k |-> "unbound", n |-> 0, d |-> 1]

Sign(n) == IF n > 0 THEN 1 ELSE IF n < 0 THEN -1 ELSE 0

FNeg(a) == [a EXCEPT !.n = -a.n]

FAdd(a, b) ==
  IF a.k = "nan" \/ b.k = "nan" THEN NaN
  ELSE IF a.k = "inf" /\ b.k = "inf" THEN (IF a.n = b.n THEN a ELSE NaN)
  ELSE IF a.k = "inf" THEN a
  ELSE IF b.k = "inf" THEN b
  ELSE Rat(a.n * b.d + b.n * a.d, a.d * b.d)

FSub(a, b) == FAdd(a, FNeg(b))

FAbs(a) == [a EXCEPT !.n = AbsInt(a.n)]

\* a * b; 0 * inf is NaN
FMul(a, b) ==
  IF a.k = "nan" \/ b.k = "nan" THEN NaN
  ELSE IF a.k = "inf" \/ b.k = "inf"
       THEN (IF a.n = 0 \/ b.n = 0 THEN NaN ELSE Inf(Sign(a.n) * Sign(b.n)))
  ELSE Rat(a.n * b.n, a.d * b.d)

\* a / b for a finite b # 0
FDiv(a, b) == FMul(a, Rat(Sign(b.n) * b.d, AbsInt(b.n)))

\* a < b; every comparison with NaN is false
FLt(a, b) ==
  IF a.k = "nan" \/ b.k = "nan" THEN FALSE
  ELSE IF a.k = "inf" THEN a.n < 0 /\ ~(b.k = "inf" /\ b.n < 0)
  ELSE IF b.k = "inf" THEN b.n > 0
  ELSE a.n * b.d < b.n * a.d

FGt(a, b) == FLt(b, a)

\* Python's min(a, b): b if b < a, else a
PyMin(a, b) == IF FLt(b, a) THEN b ELSE a

RECURSIVE Pow10(_)
Pow10(p) == IF p = 0 THEN 1 ELSE 10 * Pow10(p - 1)

DigitSet == {DigitChars[i] : i \in 1..10}

DigitVal(c) == (CHOOSE i \in 1..10 : DigitChars[i] = c) - 1

RECURSIVE NumVal(_)
NumVal(s) ==
  IF s = <<>> THEN 0 ELSE 10 * NumVal(SubSeq(s, 1, Len(s) - 1)) + DigitVal(s[Len(s)])

\* a lenient parser: skips what is not a digit and never raises
ParseFloatLoose(text) ==
  LET s      == Strip(text)
      signed == s # <<>> /\ Head(s) \in {"+", "-"}
      body   == IF signed THEN Tail(s) ELSE s
      digits == SelectSeq(body, LAMBDA c : c \in DigitSet)
  IN  [ok |-> TRUE, v |-> Rat(NumVal(digits), 1)]

\* float(text): surrounding whitespace is ignored, then an optional sign and
\* either nan, inf, infinity or decimal digits with at most one point and at
\* least one digit.  (Exponents, underscores and upper-case spellings are
\* not in the input alphabet of the model.)  ok = FALSE is ValueError.
ParseFloat(text) ==
  LET s      == Strip(text)
      signed == s # <<>> /\ Head(s) \in {"+", "-"}
      sgn    == IF signed /\ Head(s) = "-" THEN -1 ELSE 1
      body   == IF signed THEN Tail(s) ELSE s
      dots   == Count(body, ".")
      dotpos == IF dots = 1
                THEN CHOOSE i \in 1..Len(body) : body[i] = "."
                ELSE Len(body) + 1
      ip     == SubSeq(body, 1, dotpos - 1)
      fp     == IF dotpos < Len(body) THEN SubSeq(body, dotpos + 1, Len(body)) ELSE <<>>
      ds     == ip \o fp
  IN  IF body = <<"n", "a", "n">> THEN [ok |-> TRUE, v |-> NaN]
      ELSE IF body \in {<<"i", "n", "f">>, <<"i", "n", "f", "i", "n", "i", "t", "y">>}
           THEN [ok |-> TRUE, v |-> Inf(sgn)]
      ELSE IF dots <= 1 /\ ds # <<>> /\ \A i \in 1..Len(ds) : ds[i] \in DigitSet
           THEN [ok |-> TRUE, v |-> Rat(sgn * NumVal(ds), Pow10(Len(fp)))]
      ELSE [ok |-> FALSE, v |-> Unbound]

\* format(v, ".<places>f"): round half to even at that many decimals
FormatFixed(v, places) ==
  IF v.k = "nan" THEN <<"n", "a", "n">>
  ELSE IF v.k = "inf" THEN (IF v.n < 0 THEN <<"-">> ELSE <<>>) \o <<"i", "n", "f">>
  ELSE
    LET num  == AbsInt(v.n) * Pow10(places)
        q    == num \div v.d
        r    == num % v.d
        up   == 2 * r > v.d \/ (2 * r = v.d /\ q % 2 = 1)
        m    == IF up THEN q + 1 ELSE q
        body == Digits(m \div Pow10(places), 1)
                  \o (IF places > 0 THEN <<".">> \o Digits(m % Pow10(places), places) ELSE <<>>)
    IN  (IF v.n < 0 THEN <<"-">> ELSE <<>>) \o body

\* ------------------------------------------------------------------------
\* Data/FetchData.py: the serial log collector
\* ------------------------------------------------------------------------

\* the loop of the collector never ends; the model stops reading here
MaxLines == 3

Marker == <<"[", "L", "o", "g", "s", "]", " ">>

MarkerNoSpace == <<"[", "L", "o", "g", "s", "]">>

\* what Serial.readline() can return: bytes up to and including the first
\* newline
SerialLines ==
  { Marker \o <<"7", "\n">>,
    Marker \o <<"2", " ", "3", "\r", "\n">>,
    Marker \o <<"a", "[", "L", "o", "g", "s", "]", "b", "\n">>,
    Marker \o <<"\t", "5", "\n">>,
    Marker \o <<"xFF", "\n">>,
    MarkerNoSpace \o <<"7", "\n">>,
    <<"x">> \o Marker \o <<"1", "\n">>,
    <<"\n">> }

\* what datetime.datetime.now() can return
Clock ==
  { [year |-> 2024, month |-> 1, day |-> 9, hour |-> 8, minute |-> 5, second |-> 0],
    [year |-> 2024, month |-> 12, day |-> 31, hour |-> 23, minute |-> 59, second |-> 59] }

\* strftime("%Y-%m-%d %H:%M:%S")
Strftime(t) ==
  Digits(t.year, 4) \o <<"-">> \o Digits(t.month, 2) \o <<"-">> \o Digits(t.day, 2)
    \o <<" ">>
    \o Digits(t.hour, 2) \o <<":">> \o Digits(t.minute, 2) \o <<":">> \o Digits(t.second, 2)

\* bytes.decode('utf-8') raises UnicodeDecodeError on a byte that is not UTF-8
DecodeRaises(bytes) == \E i \in 1..Len(bytes) : bytes[i] = "xFF"

\* the record built without strip()
FormatRecordUnstripped(bytes, ts) ==
  LET joined  == ts \o <<",">> \o bytes
      nospace == RemoveAll(joined, <<" ">>)
  IN  RemoveAll(nospace, MarkerNoSpace)

\* lines 10-13: the record built from a marker line and the timestamp
FormatRecord(bytes, ts) ==
  LET decoded  == Strip(bytes)
      joined   == ts \o <<",">> \o decoded
      nospace  == RemoveAll(joined, <<" ">>)
  IN  RemoveAll(nospace, MarkerNoSpace)

\* ------------------------------------------------------------------------
\* app.py: configuration and the loaded artifacts
\* ------------------------------------------------------------------------

TIME_STEPS == 30

DEFAULT_THRESHOLD == Rat(15, 100)

Features == 1..4

\* self.model = None / self.scaler = None: falsy in `not self.model`
NoModel == [loaded |-> FALSE, limit |-> 0, bias |-> Rat(0, 1)]

NoScaler == [loaded |-> FALSE, mean |-> <<0, 0, 0, 0>>, scale |-> <<1, 1, 1, 1>>,
             rejects |-> {}]

\* The artifacts are files outside the repository.  A scaler is a fitted
\* standardisation (x - mean) / scale per feature; its transform either
\* validates its input and raises ValueError on an infinity, or does plain
\* arithmetic.  Which one is a property of the pickled object.
Scalers ==
  { [loaded |-> TRUE, mean |-> <<25, 50, 1013, 800>>, scale |-> <<5, 30, 10, 100>>,
     rejects |-> r] : r \in {{}, {"inf"}} }

\* A reconstruction model reproduces a normalised value inside [-limit, limit],
\* saturates outside, and is off by a constant bias.
Models ==
  { [loaded |-> TRUE, limit |-> 2, bias |-> b] : b \in {Rat(0, 1), Rat(1, 20), Rat(15, 100)} }

\* line 111, self.scaler.transform(input_vector): ValueError or the scaled row
TransformRaises(s, vec) == \E f \in Features : vec[f].k \in s.rejects

Transform(s, vec) ==
  [f \in Features |-> FDiv(FSub(vec[f], Rat(s.mean[f], 1)), Rat(s.scale[f], 1))]

Clamp(x, lo, hi) == IF FLt(x, lo) THEN lo ELSE IF FGt(x, hi) THEN hi ELSE x

\* line 120, self.model.predict(input_batch): a batch of the same shape
Predict(m, batch) ==
  [t \in DOMAIN batch |->
     [f \in Features |->
        FAdd(Clamp(batch[t][f], Rat(-m.limit, 1), Rat(m.limit, 1)), m.bias)]]

\* lines 116-117: the scaled row repeated TIME_STEPS times
Repeat(row) == [t \in 1..TIME_STEPS |-> row]

RECURSIVE SumSeq(_)
SumSeq(xs) == IF xs = <<>> THEN Rat(0, 1) ELSE FAdd(Head(xs), SumSeq(Tail(xs)))

\* line 123: np.mean(np.abs(reconstruction - input_batch)) over every
\* time step and feature
MeanAbsError(reconstruction, batch) ==
  LET rows == [t \in DOMAIN batch |->
                 SumSeq([f \in Features |->
                           FAbs(FSub(reconstruction[t][f], batch[t][f]))])]
  IN  FDiv(SumSeq(rows), Rat(Len(batch) * 4, 1))

\* score relative to the wrong constant
ScorePercentOfSteps(mae) == FDiv(mae, Rat(TIME_STEPS, 1))

\* line 127
ScorePercent(mae) == FDiv(mae, DEFAULT_THRESHOLD)

\* the comparison written with >=
IsAnomalyInclusive(mae) == ~FLt(mae, DEFAULT_THRESHOLD)

\* line 132
IsAnomaly(mae) == FGt(mae, DEFAULT_THRESHOLD)

\* the anomaly bar added to what the bar already shows
AnomalyBarAccumulating(score) ==
  PyMin(FAdd(progress_bar.value, FMul(score, Rat(1, 2))), Rat(1, 1))

\* the anomaly bar without its cap
AnomalyBarUncapped(score) == FMul(score, Rat(1, 2))

\* line 137
AnomalyBar(score) == PyMin(FMul(score, Rat(1, 2)), Rat(1, 1))

\* line 135 / line 141: the score label
ScoreLabel(anomaly, score) ==
  [head  |-> IF anomaly THEN "Severity: " ELSE "Deviation: ",
   num   |-> FormatFixed(FMul(score, Rat(100, 1)), 1),
   tail  |-> IF anomaly THEN "% (Above Normal Limits)" ELSE "% (Within Normal Limits)",
   color |-> "GREY_400"]

\* line 129: the raw-error label
LossLabel(mae) ==
  [head |-> "Raw Reconstruction Error: ", num |-> FormatFixed(mae, 4), color |-> "GREY_500"]

\* ------------------------------------------------------------------------
\* app.py: the text the user can put in the four fields
\* ------------------------------------------------------------------------

TempTexts ==
  { <<"2", "5", ".", "0">>, <<"3", "9", ".", "0">>, <<"a", "b", "c">>, <<"i", "n", "f">> }

HumTexts ==
  { <<"5", "0", ".", "0">>, <<>>, <<"n", "a", "n">> }

PressTexts ==
  { <<"1", "0", "1", "3", ".", "0">>, <<"1", "o", "1", "3">> }

SoilTexts ==
  { <<"8", "0", "0", ".", "0">>, <<" ", "-", "5", " ">>, <<"8", ".", "0", ".", "0">> }

\* the texts above that float() rejects
BadTexts ==
  { <<"a", "b", "c">>, <<>>, <<"1", "o", "1", "3">>, <<"8", ".", "0", ".", "0">> }

\* the texts above that float() accepts as an infinity or a NaN
NonFiniteTexts == { <<"i", "n", "f">>, <<"n", "a", "n">> }

\* lines 22-34, load_assets: the files exist or not, and each load returns
\* an object or raises
LoadAssets(exists, mres, sres) ==
  IF ~exists
  THEN [model |-> NoModel, scaler |-> NoScaler,
        status |-> "Error: Model/Scaler files missing!", status_color |-> "RED"]
  ELSE IF mres.raises
  THEN [model |-> NoModel, scaler |-> NoScaler,
        status |-> "Error loading files: ", status_color |-> "RED"]
  ELSE IF sres.raises
  THEN [model |-> mres.obj, scaler |-> NoScaler,
        status |-> "Error loading files: ", status_color |-> "RED"]
  ELSE [model |-> mres.obj, scaler |-> sres.obj,
        status |-> "Ready", status_color |-> "GREEN"]

\* what tf.keras.models.load_model and joblib.load can do
ModelLoads ==
  {[raises |-> FALSE, obj |-> m] : m \in Models} \cup {[raises |-> TRUE, obj |-> NoModel]}

ScalerLoads ==
  {[raises |-> FALSE, obj |-> sc] : sc \in Scalers} \cup {[raises |-> TRUE, obj |-> NoScaler]}

cvars == <<file, data, timestamp, lines_read, cpc>>

assets == <<model, scaler, status, status_color>>

fields == <<txt_temp, txt_hum, txt_press, txt_soil>>

widgets == <<lbl_result, lbl_score, progress_bar, lbl_loss, card_visible>>

locals == <<reading, mae_loss, score_percent, transform_called, predict_called,
            outcome, prev_outcome>>

gvars == <<assets, fields, widgets, locals, snap>>

vars == <<cvars, gvars>>

\* what the result card shows
Display == <<lbl_result, lbl_score, lbl_loss, progress_bar>>

NoReading == [f \in Features |-> Unbound]

CollectorInit ==
  /\ file \in {<<>>, <<"o", "l", "d", "\n">>}
  /\ data = <<>>
  /\ timestamp = <<>>
  /\ lines_read = 0
  /\ cpc = "running"

\* __init__ (lines 16-20) and build (lines 36-63)
CheckerInit ==
  /\ \E exists \in BOOLEAN, mres \in ModelLoads, sres \in ScalerLoads :
       LET a == LoadAssets(exists, mres, sres)
       IN  /\ model = a.model
           /\ scaler = a.scaler
           /\ status = a.status
           /\ status_color = a.status_color
  /\ txt_temp = <<"2", "5", ".", "0">>
  /\ txt_hum = <<"5", "0", ".", "0">>
  /\ txt_press = <<"1", "0", "1", "3", ".", "0">>
  /\ txt_soil = <<"8", "0", "0", ".", "0">>
  /\ lbl_result = [value |-> "Waiting for input...", color |-> "default"]
  /\ lbl_score = [head |-> "Anomaly Score: ", num |-> <<"0">>, tail |-> "%",
                  color |-> "GREY_400"]
  /\ progress_bar = [value |-> Rat(0, 1), color |-> "BLUE"]
  /\ lbl_loss = [head |-> "Raw Reconstruction Error: ",
                 num |-> <<"0", ".", "0", "0", "0", "0">>, color |-> "GREY_500"]
  /\ card_visible = FALSE
  /\ reading = NoReading
  /\ mae_loss = Unbound
  /\ score_percent = Unbound
  /\ transform_called = FALSE
  /\ predict_called = FALSE
  /\ outcome = "none"
  /\ prev_outcome = "none"
  /\ snap = [set |-> FALSE, reading |-> NoReading, shown |-> Display, prev |-> "none"]

\* the collector before its first line, while the checker is looked at
CollectorIdle ==
  /\ file = <<>>
  /\ data = <<>>
  /\ timestamp = <<>>
  /\ lines_read = 0
  /\ cpc = "running"

\* the checker as built with its files missing, while the collector is
\* looked at
CheckerIdle ==
  /\ CheckerInit
  /\ status = "Error: Model/Scaler files missing!"

Init == CollectorIdle /\ CheckerInit

InitCollector == CollectorInit /\ CheckerIdle

\* ------------------------------------------------------------------------
\* Data/FetchData.py: the read loop
\* ------------------------------------------------------------------------
\* one iteration of the while loop on a line without the marker
ReadOther ==
  /\ cpc = "running"
  /\ lines_read < MaxLines
  /\ \E bytes \in SerialLines :
       /\ ~StartsWith(bytes, Marker)
       /\ data' = bytes
  /\ lines_read' = lines_read + 1
  /\ UNCHANGED <<file, timestamp, cpc, gvars>>

\* one iteration on a marker line that decodes: the record is appended
ReadMarker ==
  /\ cpc = "running"
  /\ lines_read < MaxLines
  /\ \E bytes \in SerialLines, now \in Clock :
       /\ StartsWith(bytes, Marker)
       /\ ~DecodeRaises(bytes)
       /\ data' = bytes
       /\ timestamp' = Strftime(now)
       /\ file' = file \o FormatRecord(bytes, Strftime(now)) \o <<"\n">>
  /\ lines_read' = lines_read + 1
  /\ UNCHANGED <<cpc, gvars>>

\* one iteration on a marker line that is not UTF-8: line 10 raises after
\* line 9 has run, nothing catches it, the process ends
ReadUndecodable ==
  /\ cpc = "running"
  /\ lines_read < MaxLines
  /\ \E bytes \in SerialLines, now \in Clock :
       /\ StartsWith(bytes, Marker)
       /\ DecodeRaises(bytes)
       /\ data' = bytes
       /\ timestamp' = Strftime(now)
  /\ lines_read' = lines_read + 1
  /\ cpc' = "crashed"
  /\ UNCHANGED <<file, gvars>>

CollectorNext == ReadOther \/ ReadMarker \/ ReadUndecodable

SpecCollector == InitCollector /\ [][CollectorNext]_vars

\* ------------------------------------------------------------------------
\* app.py: the user edits a field
\* ------------------------------------------------------------------------

EditTemp(texts) ==
  /\ txt_temp' \in texts
  /\ UNCHANGED <<cvars, assets, txt_hum, txt_press, txt_soil, widgets, locals, snap>>

EditHum(texts) ==
  /\ txt_hum' \in texts
  /\ UNCHANGED <<cvars, assets, txt_temp, txt_press, txt_soil, widgets, locals, snap>>

EditPress(texts) ==
  /\ txt_press' \in texts
  /\ UNCHANGED <<cvars, assets, txt_temp, txt_hum, txt_soil, widgets, locals, snap>>

EditSoil(texts) ==
  /\ txt_soil' \in texts
  /\ UNCHANGED <<cvars, assets, txt_temp, txt_hum, txt_press, widgets, locals, snap>>

\* ------------------------------------------------------------------------
\* app.py: analyze_inputs, lines 92-151
\* ------------------------------------------------------------------------

\* line 93 also giving up once an attempt has failed
AssetsMissingOrFailed == ~model.loaded \/ ~scaler.loaded \/ outcome = "invalid"

\* line 93 with `and` for `or`
AssetsMissingBoth == ~model.loaded /\ ~scaler.loaded

\* line 93: not self.model or not self.scaler
AssetsMissing == ~model.loaded \/ ~scaler.loaded

\* lines 102-105, in this order
Parsed ==
  <<ParseFloat(txt_temp), ParseFloat(txt_hum), ParseFloat(txt_press), ParseFloat(txt_soil)>>

\* line 109
InputVector(ps) == [f \in Features |-> ps[f].v]

\* lines 93-98
AnalyzeNotLoaded ==
  /\ AssetsMissing
  /\ lbl_result' = [value |-> "Model not loaded!", color |-> "RED"]
  /\ card_visible' = TRUE
  /\ reading' = NoReading
  /\ mae_loss' = Unbound
  /\ score_percent' = Unbound
  /\ transform_called' = FALSE
  /\ predict_called' = FALSE
  /\ outcome' = "not_loaded"
  /\ prev_outcome' = outcome
  /\ UNCHANGED <<cvars, assets, fields, lbl_score, progress_bar, lbl_loss, snap>>

\* the handler of ValueError also resetting the card
AnalyzeInvalidClears ==
  /\ ~AssetsMissing
  /\ \E f \in Features : ~Parsed[f].ok
  /\ reading' = NoReading
  /\ mae_loss' = Unbound
  /\ score_percent' = Unbound
  /\ transform_called' = FALSE
  /\ predict_called' = FALSE
  /\ lbl_result' = [value |-> "Invalid Input: Please enter numbers only.", color |-> "RED"]
  /\ progress_bar' = [value |-> Rat(0, 1), color |-> "BLUE"]
  /\ card_visible' = TRUE
  /\ outcome' = "invalid"
  /\ prev_outcome' = outcome
  /\ UNCHANGED <<cvars, assets, fields, lbl_score, lbl_loss, snap>>

\* lines 100-105 and 147-151: one of the four float() calls raises ValueError
AnalyzeInvalid ==
  /\ ~AssetsMissing
  /\ \E f \in Features : ~Parsed[f].ok
  /\ reading' = NoReading
  /\ mae_loss' = Unbound
  /\ score_percent' = Unbound
  /\ transform_called' = FALSE
  /\ predict_called' = FALSE
  /\ lbl_result' = [value |-> "Invalid Input: Please enter numbers only.", color |-> "RED"]
  /\ card_visible' = TRUE
  /\ outcome' = "invalid"
  /\ prev_outcome' = outcome
  /\ UNCHANGED <<cvars, assets, fields, lbl_score, progress_bar, lbl_loss, snap>>

\* lines 100-111 and 147-151: the four values parse and the scaler's
\* transform raises ValueError
AnalyzeRejected ==
  /\ ~AssetsMissing
  /\ \A f \in Features : Parsed[f].ok
  /\ TransformRaises(scaler, InputVector(Parsed))
  /\ reading' = InputVector(Parsed)
  /\ mae_loss' = Unbound
  /\ score_percent' = Unbound
  /\ transform_called' = TRUE
  /\ predict_called' = FALSE
  /\ lbl_result' = [value |-> "Invalid Input: Please enter numbers only.", color |-> "RED"]
  /\ card_visible' = TRUE
  /\ outcome' = "invalid"
  /\ prev_outcome' = outcome
  /\ UNCHANGED <<cvars, assets, fields, lbl_score, progress_bar, lbl_loss, snap>>

\* lines 100-145: the reading is scored and shown
AnalyzeScored ==
  /\ ~AssetsMissing
  /\ \A f \in Features : Parsed[f].ok
  /\ ~TransformRaises(scaler, InputVector(Parsed))
  /\ \E input_vector \in {InputVector(Parsed)} :
     \E scaled_vector \in {Transform(scaler, input_vector)} :
     \E input_batch \in {Repeat(scaled_vector)} :
     \E reconstruction \in {Predict(model, input_batch)} :
     \E mae \in {MeanAbsError(reconstruction, input_batch)} :
     \E score \in {ScorePercent(mae)} :
       /\ reading' = input_vector
       /\ mae_loss' = mae
       /\ score_percent' = score
       /\ lbl_loss' = LossLabel(mae)
       /\ IF IsAnomaly(mae)
          THEN /\ lbl_result' = [value |-> "ANOMALY DETECTED", color |-> "RED"]
               /\ lbl_score' = ScoreLabel(TRUE, score)
               /\ progress_bar' = [value |-> AnomalyBar(score), color |-> "RED"]
               /\ outcome' = "anomaly"
          ELSE /\ lbl_result' = [value |-> "STATUS NORMAL", color |-> "GREEN"]
               /\ lbl_score' = ScoreLabel(FALSE, score)
               /\ progress_bar' = [value |-> score, color |-> "GREEN"]
               /\ outcome' = "normal"
  /\ transform_called' = TRUE
  /\ predict_called' = TRUE
  /\ card_visible' = TRUE
  /\ prev_outcome' = outcome
  /\ UNCHANGED <<cvars, assets, fields, snap>>

\* one click on "Analyze Readings"
Analyze == AnalyzeNotLoaded \/ AnalyzeInvalid \/ AnalyzeRejected \/ AnalyzeScored

Next ==
  \/ EditTemp(TempTexts)
  \/ EditHum(HumTexts)
  \/ EditPress(PressTexts)
  \/ EditSoil(SoilTexts)
  \/ AnalyzeNotLoaded
  \/ AnalyzeInvalid
  \/ AnalyzeRejected
  \/ AnalyzeScored

Spec == Init /\ [][Next]_vars

\* the same program when the user types finite numbers or text that is not
\* a number; the scaler's transform then has nothing to reject
NextFinite ==
  \/ EditTemp(TempTexts \ NonFiniteTexts)
  \/ EditHum(HumTexts \ NonFiniteTexts)
  \/ EditPress(PressTexts \ NonFiniteTexts)
  \/ EditSoil(SoilTexts \ NonFiniteTexts)
  \/ AnalyzeNotLoaded
  \/ AnalyzeInvalid
  \/ AnalyzeScored

SpecFinite == Init /\ [][NextFinite]_vars

\* an observer keeps the reading and the card of one successful call
Remember ==
  /\ ~snap.set
  /\ outcome \in {"normal", "anomaly"}
  /\ snap' = [set |-> TRUE, reading |-> reading, shown |-> Display, prev |-> prev_outcome]
  /\ UNCHANGED <<cvars, assets, fields, widgets, locals>>

\* the same program with the observer, two fields being edited
NextPair ==
  \/ EditTemp(TempTexts)
  \/ EditHum({<<"5", "0", ".", "0">>, <<"n", "a", "n">>})
  \/ AnalyzeNotLoaded
  \/ AnalyzeInvalid
  \/ AnalyzeRejected
  \/ AnalyzeScored
  \/ Remember

SpecPair == Init /\ [][NextPair]_vars

\* ------------------------------------------------------------------------
\* Properties
\* ------------------------------------------------------------------------

Scored == {"normal", "anomaly"}

\* a step of analyze_inputs: the steps of the checker that leave the four
\* fields as they are
Click == fields' = fields

InvalidHeadline ==
  [value |-> "Invalid Input: Please enter numbers only.", color |-> "RED"]

NotLoadedHeadline == [value |-> "Model not loaded!", color |-> "RED"]

\* m > 0.15, written out
ExceedsThreshold(m) ==
  \/ m.k = "inf" /\ m.n > 0
  \/ m.k = "fin" /\ 100 * m.n > 15 * m.d

Unavailable == ~model.loaded \/ ~scaler.loaded

FieldTexts == {txt_temp, txt_hum, txt_press, txt_soil}

SomeFieldBad == FieldTexts \cap BadTexts # {}

AllFieldsParse == FieldTexts \cap BadTexts = {}

AllFieldsFinite == FieldTexts \cap (BadTexts \cup NonFiniteTexts) = {}

FiniteReading == \A f \in Features : reading[f].k = "fin"

\* C1: after every successful scoring the headline is ANOMALY DETECTED
\* exactly when the raw error is strictly greater than 0.15, and STATUS
\* NORMAL otherwise; an error equal to 0.15 is Normal.
C1_StrictThreshold ==
  outcome \in Scored =>
    /\ lbl_result.value \in {"ANOMALY DETECTED", "STATUS NORMAL"}
    /\ (lbl_result.value = "ANOMALY DETECTED") <=> ExceedsThreshold(mae_loss)
    /\ (outcome = "anomaly") <=> ExceedsThreshold(mae_loss)

\* a Normal result whose raw error is exactly the threshold
C1_Witness ==
  /\ outcome = "normal"
  /\ lbl_result.value = "STATUS NORMAL"
  /\ mae_loss.k = "fin"
  /\ 100 * mae_loss.n = 15 * mae_loss.d

\* C2: with model and scaler loaded, a click while any of the four fields
\* holds text that is not a number ends in the invalid-input headline, and
\* neither the scaler's transform nor the model's predict was reached.
C2_InvalidBeforeScoring ==
  [][ (Click /\ ~Unavailable /\ SomeFieldBad) =>
        /\ outcome' = "invalid"
        /\ lbl_result' = InvalidHeadline
        /\ ~transform_called'
        /\ ~predict_called' ]_vars

\* an invalid-input outcome where only the last field parsed is the bad one
C2_Witness ==
  /\ outcome = "invalid"
  /\ ~transform_called
  /\ lbl_result = InvalidHeadline
  /\ txt_soil \in BadTexts
  /\ {txt_temp, txt_hum, txt_press} \cap BadTexts = {}

\* C3: after a failed load_assets the model or the scaler is unavailable;
\* from then on every click ends in 'Model not loaded!' with no parsing,
\* scaling or prediction, and no step makes the assets available.
C3_NotLoadedForever ==
  /\ [](status # "Ready" => Unavailable)
  /\ [][ Unavailable =>
           /\ Unavailable'
           /\ Click =>
                /\ outcome' = "not_loaded"
                /\ lbl_result' = NotLoadedHeadline
                /\ card_visible'
                /\ reading' = NoReading
                /\ ~transform_called'
                /\ ~predict_called' ]_vars

\* 'Model not loaded!' with the model loaded, the scaler not, and a field
\* that is not a number
C3_Witness ==
  /\ outcome = "not_loaded"
  /\ prev_outcome = "not_loaded"
  /\ model.loaded
  /\ ~scaler.loaded
  /\ SomeFieldBad

\* C4: after scoring a reading of four finite numbers the raw error is a
\* finite number >= 0, the score is raw_error / 0.15, and the score label
\* shows score * 100 to one decimal place, in both branches.
C4_SeverityPercent ==
  (outcome \in Scored /\ FiniteReading) =>
    /\ mae_loss.k = "fin"
    /\ mae_loss.n >= 0
    /\ score_percent.k = "fin"
    /\ score_percent.n * 15 * mae_loss.d = mae_loss.n * 100 * score_percent.d
    /\ lbl_score.head = (IF outcome = "anomaly" THEN "Severity: " ELSE "Deviation: ")
    /\ LET shown == ParseFloat(lbl_score.num)
       IN  /\ shown.ok
           /\ shown.v.k = "fin"
           /\ 20 * AbsInt(shown.v.n * score_percent.d - 100 * score_percent.n * shown.v.d)
                <= shown.v.d * score_percent.d

\* an Anomaly whose percentage is not a whole number of tenths: 133.33...
C4_Witness ==
  /\ outcome = "anomaly"
  /\ FiniteReading
  /\ lbl_score.head = "Severity: "
  /\ lbl_score.num = <<"1", "3", "3", ".", "3">>

\* C5, as claimed: with the assets loaded, a click with four fields that
\* float() accepts ends in a Normal or Anomaly result.
C5_Original ==
  [][ (Click /\ ~Unavailable /\ AllFieldsParse) => outcome' \in Scored ]_vars

\* C5, amended: with the assets loaded, a click with four fields that parse
\* as finite numbers runs the scaler and the model and ends in a Normal or
\* Anomaly result, whatever invalid attempts came before.
C5_FiniteAlwaysScored ==
  [][ (Click /\ ~Unavailable /\ AllFieldsFinite) =>
        /\ outcome' \in Scored
        /\ transform_called'
        /\ predict_called'
        /\ lbl_result'.value \in {"ANOMALY DETECTED", "STATUS NORMAL"} ]_vars

\* a result right after an invalid attempt
C5_Witness ==
  /\ prev_outcome = "invalid"
  /\ outcome \in Scored
  /\ predict_called

\* C6: a successful call on the reading of a remembered successful call
\* shows the same headline, score text, raw error and bar, whatever
\* happened in between, and no step changes the loaded model or scaler.
C6_NoHiddenState ==
  /\ []( (snap.set /\ outcome \in Scored /\ reading = snap.reading)
           => Display = snap.shown )
  /\ [][ model' = model /\ scaler' = scaler ]_vars

\* the remembered reading scored again in a later call, after an invalid one
C6_Witness ==
  /\ snap.set
  /\ outcome = "anomaly"
  /\ reading = snap.reading
  /\ prev_outcome = "invalid"
  /\ snap.prev # "invalid"

\* C9: a click that ends in invalid input or in 'Model not loaded!' shows
\* the card and the error headline and leaves the score label, the
\* raw-error label and the bar as they were.
C9_FailureKeepsCard ==
  [][ (Click /\ outcome' \in {"invalid", "not_loaded"}) =>
        /\ card_visible'
        /\ lbl_result' \in {InvalidHeadline, NotLoadedHeadline}
        /\ lbl_score' = lbl_score
        /\ lbl_loss' = lbl_loss
        /\ progress_bar' = progress_bar ]_vars

\* the error headline over the values of an earlier Anomaly
C9_Witness ==
  /\ outcome = "invalid"
  /\ prev_outcome = "anomaly"
  /\ card_visible
  /\ lbl_result = InvalidHeadline
  /\ lbl_score.head = "Severity: "
  /\ progress_bar.color = "RED"

\* C10: with finite or non-numeric inputs the bar is always in [0, 1]: 0
\* before the first result, raw_error / 0.15 after a Normal result, and
\* min(0.5 * raw_error / 0.15, 1), above 0.5, after an Anomaly result.
C10_BarInUnitInterval ==
  LET v == progress_bar.value
  IN  /\ v.k = "fin"
      /\ 0 <= v.n
      /\ v.n <= v.d
      /\ outcome = "none" => v.n = 0
      /\ outcome = "normal" => v.n * 15 * mae_loss.d = mae_loss.n * 100 * v.d
      /\ outcome = "anomaly" =>
           /\ 2 * v.n > v.d
           /\ IF mae_loss.n * 100 >= 30 * mae_loss.d
              THEN v.n = v.d
              ELSE v.n * 30 * mae_loss.d = mae_loss.n * 100 * v.d

\* an Anomaly whose half score is above 1, shown as a full bar
C10_Witness ==
  /\ outcome = "anomaly"
  /\ mae_loss.n * 100 > 30 * mae_loss.d
  /\ progress_bar.value.n = progress_bar.value.d

\* ------------------------------------------------------------------------
\* Properties of the collector
\* ------------------------------------------------------------------------

ReadsALine == lines_read' = lines_read + 1

Decodes(bytes) == \A i \in 1..Len(bytes) : bytes[i] # "xFF"

\* file' is file followed by exactly one line
AppendsOneLine ==
  /\ Len(file') > Len(file)
  /\ SubSeq(file', 1, Len(file)) = file
  /\ file'[Len(file')] = "\n"
  /\ Count(file', "\n") = Count(file, "\n") + 1

\* C7, as claimed: every line read that begins with the marker appends
\* exactly one line, any other line leaves the file unchanged.
C7_Original ==
  [][ ReadsALine =>
        IF StartsWith(data', Marker) THEN AppendsOneLine ELSE file' = file ]_vars

\* C7, amended: every line read that begins with the marker and is valid
\* UTF-8 appends exactly one line after what the file held; a marker line
\* that is not valid UTF-8 ends the collector with the file unchanged; any
\* other line leaves the file unchanged.
C7_AppendOnlyFiltered ==
  [][ ReadsALine =>
        IF StartsWith(data', Marker) /\ Decodes(data')
        THEN AppendsOneLine /\ cpc' = "running"
        ELSE /\ file' = file
             /\ StartsWith(data', Marker) => cpc' = "crashed" ]_vars

\* two records appended after the old content, one line filtered out
C7_Witness ==
  /\ lines_read = 3
  /\ StartsWith(file, <<"o", "l", "d", "\n">>)
  /\ Count(file, "\n") = 3
  /\ cpc = "running"

\* the text after the leading marker, whitespace stripped
Payload(bytes) == Strip(SubSeq(bytes, Len(Marker) + 1, Len(bytes)))

EndsWith(s, t) ==
  /\ Len(s) >= Len(t)
  /\ SubSeq(s, Len(s) - Len(t) + 1, Len(s)) = t

\* C8: the record appended for a marker line is the timestamp as generated,
\* a comma, and the payload of the line.
C8_RecordIsTimestampCommaPayload ==
  (lines_read > 0 /\ StartsWith(data, Marker) /\ Decodes(data)) =>
    EndsWith(file, timestamp \o <<",">> \o Payload(data) \o <<"\n">>)

====
